---- MODULE Spec2Model ----
(***************************************************************************)
(* Indoor-positioning pipeline: the Loader (src/utils/loader.py) and the   *)
(* regression Trainer (src/models/dnn_regression.py).                      *)
(*                                                                         *)
(* Numbers are exact.  A raw value is an integer, a fitted parameter is a  *)
(* reduced fraction <<num, den>>, and a scaled value is sg * sqrt(sq) with *)
(* sg in {-1, 0, 1} and sq a reduced fraction, which is closed under the   *)
(* three scalers (a standard deviation and a row norm are square roots).   *)
(* A data frame is a function from row index to row; the order of the rows *)
(* after the shuffle is not part of the model.                             *)
(***************************************************************************)
EXTENDS Integers, Sequences, FiniteSets, TLC

\* ------------------------------------------------------------------ bounds
MaxRows == 3
NumAPs == 2
MaxEpochs == 4
MaxLoss == 3
MaxPatience == 2

\* ------------------------------------------------------- exact arithmetic
Abs(x) == IF x < 0 THEN 0 - x ELSE x

Sign(x) == IF x < 0 THEN 0 - 1 ELSE IF x = 0 THEN 0 ELSE 1

RECURSIVE GCD(_, _)
GCD(a, b) == IF b = 0 THEN a ELSE GCD(b, a % b)

\* the fraction n/d (d > 0) in lowest terms
Rat(n, d) == LET g == GCD(Abs(n), d) IN <<n \div g, d \div g>>

RSub(p, q) == Rat(p[1] * q[2] - q[1] * p[2], p[2] * q[2])

RMul(p, q) == Rat(p[1] * q[1], p[2] * q[2])

\* p / q for q > 0
RDiv(p, q) == Rat(p[1] * q[2], p[2] * q[1])

RLess(p, q) == p[1] * q[2] < q[1] * p[2]

\* math.ceil of a non-negative fraction
Ceil(p) == (p[1] + p[2] - 1) \div p[2]

\* Python's round(): half to even
RoundHalfEven(p) ==
    LET fl == p[1] \div p[2]
        twice == 2 * (p[1] % p[2])
    IN  IF twice < p[2] THEN fl
        ELSE IF twice > p[2] THEN fl + 1
        ELSE IF fl % 2 = 0 THEN fl ELSE fl + 1

RECURSIVE SumOver(_, _)
SumOver(f, S) ==
    IF S = {} THEN 0
    ELSE LET k == CHOOSE k \in S : TRUE IN f[k] + SumOver(f, S \ {k})

MinOver(f) == CHOOSE m \in {f[k] : k \in DOMAIN f} : \A k \in DOMAIN f : m <= f[k]

MaxOver(f) == CHOOSE m \in {f[k] : k \in DOMAIN f} : \A k \in DOMAIN f : m >= f[k]

\* ------------------------------------------------------------ Python values
None == [type |-> "NoneType"]

\* a missing CSV cell, and a present one
NaN == [isna |-> TRUE, val |-> 0]

Cell(v) == [isna |-> FALSE, val |-> v]

Frame(rows) == [type |-> "DataFrame", rows |-> rows]

\* ------------------------------------------------- sklearn.preprocessing
SupportedPreprocessors == {"standard_scaler", "min_max_scaler", "normalization"}

ScalerClass(preprocessor) ==
    IF preprocessor = "standard_scaler" THEN "StandardScaler"
    ELSE IF preprocessor = "min_max_scaler" THEN "MinMaxScaler"
    ELSE "Normalizer"

\* a freshly constructed, unfitted scaler object
NewScaler(kind) == [type |-> kind, cols |-> <<>>]

\* Fitted parameters of one column: the centre c and the squared scale s2.
\* StandardScaler: c = mean_, s2 = var_ ; MinMaxScaler: c = data_min_,
\* s2 = data_range_^2.  A zero scale is replaced by 1 (_handle_zeros_in_scale).
FitColumn(kind, col) ==
    LET D == DOMAIN col
        n == Cardinality(D)
        S == SumOver(col, D)
        Q == SumOver([k \in D |-> col[k] * col[k]], D)
        var == Rat(n * Q - S * S, n * n)
        range == MaxOver(col) - MinOver(col)
    IN  IF kind = "StandardScaler"
        THEN [c |-> Rat(S, n), s2 |-> IF var[1] = 0 THEN <<1, 1>> ELSE var]
        ELSE [c |-> <<MinOver(col), 1>>,
              s2 |-> IF range = 0 THEN <<1, 1>> ELSE <<range * range, 1>>]

\* (x - c) / s as sg * sqrt(sq)
TransformValue(p, x) ==
    LET d == RSub(<<x, 1>>, p.c)
    IN  [sg |-> Sign(d[1]), sq |-> RDiv(RMul(d, d), p.s2)]

\* Normalizer: each row divided by its l2 norm (a zero norm is replaced by 1)
NormalizeRow(row) ==
    LET W == DOMAIN row
        n2 == SumOver([k \in W |-> row[k] * row[k]], W)
    IN  [k \in W |-> [sg |-> Sign(row[k]),
                      sq |-> Rat(row[k] * row[k], IF n2 = 0 THEN 1 ELSE n2)]]

\* scaler.fit_transform(M) for a matrix M (row key -> sequence of columns)
\* with at least one row: the refitted scaler object and the scaled matrix.
\* The fit replaces whatever parameters the object held.
fit_transform(scaler, M) ==
    LET K == DOMAIN M
        W == DOMAIN M[CHOOSE k \in K : TRUE]
    IN  IF scaler.type = "Normalizer"
        THEN [scaler |-> scaler, out |-> [k \in K |-> NormalizeRow(M[k])]]
        ELSE LET cols == [j \in W |-> FitColumn(scaler.type, [k \in K |-> M[k][j]])]
             IN  [scaler |-> [scaler EXCEPT !.cols = cols],
                  out |-> [k \in K |-> [j \in W |-> TransformValue(cols[j], M[k][j])]]]

\* Normalizer defines no inverse_transform
HasInverse(scaler) == scaler.type \in {"StandardScaler", "MinMaxScaler"}

\* z * s + c for one column, as off + sg * sqrt(sq)
InverseValue(p, z) == [off |-> p.c, sg |-> z.sg, sq |-> RMul(z.sq, p.s2)]

\* scaler.inverse_transform(Z) with the parameters the object holds now
inverse_transform(scaler, Z) ==
    [k \in DOMAIN Z |-> [j \in DOMAIN Z[k] |-> InverseValue(scaler.cols[j], Z[k][j])]]

\* the number off + sg * sqrt(sq) is the integer x
IsExactly(v, x) ==
    LET d == RSub(<<x, 1>>, v.off)
    IN  Sign(d[1]) = v.sg /\ RMul(d, d) = v.sq

\* ------------------------------------------------ sklearn / pandas helpers
\* train_test_split(data, test_size=f) for a float 0 < f < 1: the sizes
\* (_validate_shuffle_split: n_test = ceil(f * n), n_train = n - n_test)
\* the test size rounded down
NTest_Floor(n, f) == (f[1] * n) \div f[2]

NTest(n, f) == Ceil(RMul(f, <<n, 1>>))

NTrain(n, f) == n - NTest(n, f)

\* an empty train set is a ValueError
SplitRaises(n, f) == NTrain(n, f) = 0

\* every <<train, test>> the shuffle can produce
train_test_split(ids, f) ==
    {<<ids \ t, t>> : t \in {s \in SUBSET ids : Cardinality(s) = NTest(Cardinality(ids), f)}}

\* DataFrame.sample(frac=frac): round(frac * len) rows without replacement
SampleSize(n, frac) == RoundHalfEven(RMul(frac, <<n, 1>>))

sample(ids, frac) ==
    {s \in SUBSET ids : Cardinality(s) = SampleSize(Cardinality(ids), frac)}

\* the fill value hard-wired to the command line's default
fillna_Fixed(rows, value) ==
    [i \in DOMAIN rows |->
        [rows[i] EXCEPT !.rss = [k \in DOMAIN rows[i].rss |->
            IF rows[i].rss[k].isna THEN Cell(0 - 100) ELSE rows[i].rss[k]]]]

\* df[no_waps].fillna(value)
fillna(rows, value) ==
    [i \in DOMAIN rows |->
        [rows[i] EXCEPT !.rss = [k \in DOMAIN rows[i].rss |->
            IF rows[i].rss[k].isna THEN Cell(value) ELSE rows[i].rss[k]]]]

\* ------------------------------------------------------------------- state
VARIABLES
    pc,                   \* position of the run: which call comes next
    cfg,                  \* the Loader's constructor arguments (self.frac, ...)
    data,                 \* the rows of data.csv
    fileRead,             \* data.csv has been read
    stdout,               \* lines printed
    exc,                  \* the exception that ended the last call, or None
    rssi_scaler,          \* the object self.rssi_scaler
    coords_preprocessing, \* the object self.coords_preprocessing
    tts_out,              \* train_data, test_data as train_test_split returned them
    training_df, testing_df,
    training_data, testing_data,
    self,                 \* the attributes of the DNN_Regression instance
    ret,                  \* what the last Trainer call did: op, returned value, output
    fit                   \* the state of Model.fit and its two callbacks

loaderVars == <<cfg, data, fileRead, stdout, rssi_scaler, coords_preprocessing,
                tts_out, training_df, testing_df, training_data, testing_data>>

trainerVars == <<self, ret>>

vars == <<pc, exc, loaderVars, trainerVars, fit>>

\* ------------------------------------------------------------------ inputs
Floors == {1, 2}

Preprocessors == SupportedPreprocessors \cup {"robust_scaler"}

TestSizes == {<<1, 5>>, <<1, 2>>}

Fracs == {<<1, 2>>, <<3, 5>>, <<1, 1>>}

Sentinels == {0 - 100, 100}

\* the position of row i and the reading of access point k in it, when present;
\* row i either has every reading or misses that of one access point, which
\* changes from row to row
XR(i) == (i * i) % 5

YR(i) == (3 * i) % 4

Reading(i, k) == 0 - (40 + 10 * i + k)

MissPatterns(i) == {{}, {(i % NumAPs) + 1}}

Rows(n) ==
    {[i \in 1..n |-> [floor |-> fl[i], rss |-> [k \in 1..NumAPs |->
                        IF k \in miss[i] THEN NaN ELSE Cell(Reading(i, k))],
                      xr |-> XR(i), yr |-> YR(i)]] :
        fl \in [1..n -> Floors],
        miss \in {m \in [1..n -> SUBSET (1..NumAPs)] : \A i \in 1..n : m[i] \in MissPatterns(i)}}

Datasets == UNION {Rows(n) : n \in 0..MaxRows}

Configs == [frac : Fracs, preprocessor : Preprocessors, no_val_rss : Sentinels,
            floor : Floors, test_size : TestSizes, prefix : {"IPS-LOADER"}]

NoFit == [phase |-> "idle"]

Init ==
    /\ pc = "new"
    /\ cfg \in Configs
    /\ data \in Datasets
    /\ fileRead = FALSE
    /\ stdout = <<>>
    /\ exc = None
    /\ rssi_scaler = None
    /\ coords_preprocessing = None
    /\ tts_out = None
    /\ training_df = None
    /\ testing_df = None
    /\ training_data = None
    /\ testing_data = None
    /\ self = None
    /\ ret = None
    /\ fit = NoFit

\* ------------------------------------------------------------------ Loader
Raise(type, line) == [type |-> type, line |-> line]

\* an unknown name falling back to standardization
SelectScalers_Fallback(preprocessor) ==
    [exit |-> FALSE,
     scaler |-> NewScaler(IF preprocessor \in SupportedPreprocessors
                          THEN ScalerClass(preprocessor) ELSE "StandardScaler")]

\* Loader.__init__ up to the call of load_data: the scaler pair is chosen by
\* name, and any other name prints a line and calls sys.exit(0)
SelectScalers(preprocessor) ==
    IF preprocessor \in SupportedPreprocessors
    THEN [exit |-> FALSE, scaler |-> NewScaler(ScalerClass(preprocessor))]
    ELSE [exit |-> TRUE, scaler |-> None]

LoaderInit ==
    /\ pc = "new"
    /\ LET sel == SelectScalers(cfg.preprocessor)
       IN  IF sel.exit
           THEN /\ stdout' = Append(stdout, "{} - Preprocessing Method is not Supported! " \o cfg.prefix)
                /\ exc' = [type |-> "SystemExit", line |-> 48, code |-> 0]
                /\ pc' = "exited"
                /\ UNCHANGED <<rssi_scaler, coords_preprocessing>>
           ELSE /\ rssi_scaler' = sel.scaler
                /\ coords_preprocessing' = sel.scaler
                /\ pc' = "load_data"
                /\ UNCHANGED <<stdout, exc>>
    /\ UNCHANGED <<cfg, data, fileRead, tts_out, training_df, testing_df,
                   training_data, testing_data, trainerVars, fit>>

\* the filter left out
FloorFilter_Unfiltered(rows, floor) == DOMAIN rows

\* data[data['floor'] == self.floor]
FloorFilter(rows, floor) == {i \in DOMAIN rows : rows[i].floor = floor}

Restrict(rows, ids) == [i \in ids |-> rows[i]]

load_data ==
    /\ pc = "load_data"
    /\ fileRead' = TRUE
    /\ LET kept == FloorFilter(data, cfg.floor)
       IN  IF SplitRaises(Cardinality(kept), cfg.test_size)
           THEN /\ exc' = Raise("ValueError", 66)
                /\ pc' = "raised"
                /\ UNCHANGED <<tts_out, training_df, testing_df>>
           ELSE \E split \in train_test_split(kept, cfg.test_size) :
                /\ tts_out' = [train |-> split[1], test |-> split[2]]
                /\ IF RLess(cfg.frac, <<1, 1>>)
                   THEN \E tr \in sample(split[1], cfg.frac), te \in sample(split[2], cfg.frac) :
                        /\ training_df' = Frame(Restrict(data, tr))
                        /\ testing_df' = Frame(Restrict(data, te))
                   ELSE /\ training_df' = Frame(Restrict(data, split[1]))
                        /\ testing_df' = Frame(Restrict(data, split[2]))
                /\ pc' = "process_data"
                /\ UNCHANGED exc
    /\ UNCHANGED <<cfg, data, stdout, rssi_scaler, coords_preprocessing,
                   training_data, testing_data, trainerVars, fit>>

\* np.asarray(df[no_waps]): the feature cells of every row
RssMatrix(rows) == [i \in DOMAIN rows |-> rows[i].rss]

\* rss.reshape((-1, 1)): one single-column row per cell
Flatten(M) == [p \in (DOMAIN M) \X (1..NumAPs) |-> <<M[p[1]][p[2]].val>>]

\* .reshape(rss.shape)
Unflatten(F, M) == [i \in DOMAIN M |-> [k \in 1..NumAPs |-> F[<<i, k>>][1]]]

\* np.column_stack((xr, yr))
CoordsMatrix(rows) == [i \in DOMAIN rows |-> <<rows[i].xr, rows[i].yr>>]

TrainData(rss, rss_scaled, labels) ==
    [type |-> "TrainData",
     fields |-> [rss |-> rss, rss_scaled |-> rss_scaled,
                 rss_scaler |-> "rssi_scaler", labels |-> labels]]

TestData(rss, rss_scaled, labels) ==
    [type |-> "TestData",
     fields |-> [rss |-> rss, rss_scaled |-> rss_scaled, labels |-> labels]]

\* TrainLabel and TestLabel: coords_scaler is a reference to the one object
\* self.coords_preprocessing
Label(type, coords, coords_scaled) ==
    [type |-> type,
     fields |-> [coords |-> coords, coords_scaled |-> coords_scaled,
                 coords_scaler |-> "coords_preprocessing"]]

process_data ==
    /\ pc = "process_data"
    /\ LET tr == fillna(training_df.rows, cfg.no_val_rss)
           te == fillna(testing_df.rows, cfg.no_val_rss)
           rss_training == RssMatrix(tr)
           rss_testing == RssMatrix(te)
           training_coords == CoordsMatrix(tr)
           testing_coords == CoordsMatrix(te)
       IN  /\ training_df' = Frame(tr)
           /\ testing_df' = Frame(te)
           /\ IF DOMAIN tr = {}
              THEN \* fit_transform of an array with 0 samples
                   /\ exc' = Raise("ValueError", 99)
                   /\ pc' = "raised"
                   /\ UNCHANGED <<rssi_scaler, coords_preprocessing, training_data, testing_data>>
              ELSE LET r1 == fit_transform(rssi_scaler, Flatten(rss_training))
                   IN  IF DOMAIN te = {}
                       THEN /\ exc' = Raise("ValueError", 101)
                            /\ pc' = "raised"
                            /\ rssi_scaler' = r1.scaler
                            /\ UNCHANGED <<coords_preprocessing, training_data, testing_data>>
                       ELSE LET r2 == fit_transform(r1.scaler, Flatten(rss_testing))
                                c1 == fit_transform(coords_preprocessing, training_coords)
                                c2 == fit_transform(c1.scaler, testing_coords)
                            IN  /\ rssi_scaler' = r2.scaler
                                /\ coords_preprocessing' = c2.scaler
                                /\ training_data' = TrainData(rss_training,
                                       Unflatten(r1.out, rss_training),
                                       Label("TrainLabel", training_coords, c1.out))
                                /\ testing_data' = TestData(rss_testing,
                                       Unflatten(r2.out, rss_testing),
                                       Label("TestLabel", testing_coords, c2.out))
                                /\ pc' = "done"
                                /\ UNCHANGED exc
    /\ UNCHANGED <<cfg, data, fileRead, stdout, tts_out, trainerVars, fit>>

\* ----------------------------------------------------------------- Trainer
\* the one-element tuple that a trailing comma makes of a value
Tuple(x) == [type |-> "tuple", items |-> <<x>>]

\* obj.name succeeds: only the Loader's namedtuples carry these fields
HasField(obj, name) ==
    /\ obj.type \in {"TrainData", "TestData", "TrainLabel", "TestLabel"}
    /\ name \in DOMAIN obj.fields

\* m[:, j] for a 0-based j
Column(m, j) == [i \in DOMAIN m |-> m[i][j + 1]]

\* the preprocessor argument: its default, a name, or the Loader's fitted
\* coordinate scaler handed over by the caller
Str(s) == [type |-> "str", value |-> s]

ScalerRef(name) == [type |-> "scaler", ref |-> name]

TrainerArgs ==
    [tx_power : BOOLEAN,
     preprocessor : {Str("standard_scaler"), ScalerRef("coords_preprocessing")},
     random_state : {None}, optimizer : {None}, epochs : {10}, patience : {10}]

\* DNN_Regression.__init__, lines 31-44
BaseAttrs(a) ==
    [random_state |-> a.random_state,
     training_data |-> Tuple(training_data),
     testing_data |-> Tuple(testing_data),
     preprocessor |-> a.preprocessor,
     batch_size |-> 8,
     epochs |-> a.epochs,
     optimizer |-> Tuple(a.optimizer),
     validation_split |-> None,
     dropout |-> <<1, 5>>,
     tx_power |-> a.tx_power,
     patience |-> a.patience,
     checkpoint_filepath |-> "../checkpoint/",
     save_model |-> TRUE,
     model |-> None]

\* lines 46-54 once every attribute read succeeds
SplitAttrs(s) ==
    [rss_train_scaled |-> s.training_data.fields.rss_scaled,
     power_train |-> s.training_data.fields.power,
     xr_train_scaled |-> Column(s.testing_data.fields.labels.fields.coords_scaled, 0),
     yr_train_scaled |-> Column(s.testing_data.fields.labels.fields.coords_scaled, 1),
     rss_test_scaled |-> s.testing_data.fields.rss_scaled,
     power_test |-> s.testing_data.fields.power,
     xr_test_scaled |-> Column(s.testing_data.fields.labels.fields.coords_scaled, 0),
     yr_test_scaled |-> Column(s.testing_data.fields.labels.fields.coords_scaled, 1)]

\* The constructor: the attributes it has set when it returns or raises, and
\* the exception.  The first failing attribute read ends it.
Construct(a) ==
    LET s == BaseAttrs(a)
    IN  IF ~HasField(s.training_data, "rss_scaled")
        THEN [self |-> s, exc |-> Raise("AttributeError", 46)]
        ELSE IF ~HasField(s.training_data, "power")
        THEN [self |-> s @@ [rss_train_scaled |-> s.training_data.fields.rss_scaled],
              exc |-> Raise("AttributeError", 47)]
        ELSE IF ~HasField(s.testing_data, "labels")
        THEN [self |-> s @@ [rss_train_scaled |-> s.training_data.fields.rss_scaled,
                             power_train |-> s.training_data.fields.power],
              exc |-> Raise("AttributeError", 48)]
        ELSE IF ~HasField(s.testing_data, "power")
        THEN [self |-> s @@ [k \in {"rss_train_scaled", "power_train", "xr_train_scaled",
                                    "yr_train_scaled", "rss_test_scaled"} |-> SplitAttrs(s)[k]],
              exc |-> Raise("AttributeError", 52)]
        ELSE IF s.random_state # None
        THEN [self |-> s @@ SplitAttrs(s), exc |-> Raise("TypeError", 58)]
        ELSE [self |-> s @@ SplitAttrs(s), exc |-> None]

\* the record of a call: what it reported and, for evaluate, the object whose
\* inverse_transform it called
Returned(op, out) == [type |-> "call", op |-> op, out |-> out, scaler |-> "none"]

\* DNN_Regression(training_data, testing_data, ...) on the Loader's structures
TrainerInit ==
    /\ pc = "done"
    /\ \E a \in TrainerArgs :
        LET r == Construct(a)
        IN  /\ self' = r.self
            /\ exc' = r.exc
    /\ ret' = Returned("__init__", "none")
    /\ pc' = "trainer"
    /\ UNCHANGED <<loaderVars, fit>>

\* Model(inputs=..., outputs=[output_xr, output_yr]) before compile
Model(inputs, shape) ==
    [type |-> "Model", inputs |-> inputs, shape |-> shape, outputs |-> 2,
     compiled |-> FALSE, weights |-> 0]

\* keras resolves an optimizer instance or name; a tuple is a ValueError
CompileRaises(optimizer) == optimizer.type = "tuple"

build_model ==
    /\ pc = "trainer"
    /\ ret' = Returned("build_model", "none")
    /\ IF "rss_train_scaled" \notin DOMAIN self
       THEN /\ exc' = Raise("AttributeError", 62)
            /\ UNCHANGED <<self, stdout>>
       ELSE LET num_anchor == Cardinality(DOMAIN self.rss_train_scaled)
            IN  /\ stdout' = Append(stdout, ToString(num_anchor))
                /\ IF self.tx_power
                   THEN \* the two-input model is bound to a local name only
                        /\ UNCHANGED self
                        /\ exc' = IF CompileRaises(self.optimizer)
                                  THEN Raise("ValueError", 94) ELSE None
                   ELSE /\ self' = [self EXCEPT !.model =
                                [Model(1, num_anchor) EXCEPT
                                    !.compiled = ~CompileRaises(self.optimizer)]]
                        /\ exc' = IF CompileRaises(self.optimizer)
                                  THEN Raise("ValueError", 114) ELSE None
    /\ UNCHANGED <<pc, cfg, data, fileRead, rssi_scaler, coords_preprocessing, tts_out,
                   training_df, testing_df, training_data, testing_data, fit>>

\* ------------------------------------------------- Model.fit and callbacks
\* a checkpoint written after every epoch
save_best_only_Off == FALSE

\* ModelCheckpoint(monitor='val_loss', mode='min', save_best_only=True)
save_best_only == TRUE

\* EarlyStopping(monitor='val_loss', mode='min', restore_best_weights=True)
restore_best_weights == TRUE

\* the best value so far: <<>> is infinity, <<v>> the value v
IsImprovement(current, best) == best = <<>> \/ current < best[1]

\* on_train_begin of both callbacks.  Weights are named by the epoch that
\* produced them (0: the initial weights); ckpt is the epoch whose snapshot
\* the checkpoint file holds (0: no file), saves the epochs that wrote it.
FitBegin(s) ==
    [phase |-> "fit", epochs |-> s.epochs, patience |-> s.patience,
     epoch |-> 0, losses |-> <<>>, weights |-> 0, stop_training |-> FALSE,
     ckpt_best |-> <<>>, ckpt |-> 0, saves |-> {},
     wait |-> 0, best |-> <<>>, best_weights |-> 0, stopped_epoch |-> 0]

\* ModelCheckpoint.on_epoch_end after epoch e with validation loss v
CheckpointEpochEnd(f, e, v) ==
    IF save_best_only
    THEN IF IsImprovement(v, f.ckpt_best)
         THEN [f EXCEPT !.ckpt_best = <<v>>, !.ckpt = e, !.saves = @ \cup {e}]
         ELSE f
    ELSE [f EXCEPT !.ckpt = e, !.saves = @ \cup {e}]

\* EarlyStopping.on_epoch_end after epoch e with validation loss v
EarlyStoppingEpochEnd(f, e, v) ==
    IF IsImprovement(v, f.best)
    THEN [f EXCEPT !.best = <<v>>, !.wait = 0,
                   !.best_weights = IF restore_best_weights THEN f.weights ELSE @]
    ELSE IF f.wait + 1 >= f.patience
         THEN [f EXCEPT !.wait = @ + 1, !.stopped_epoch = e, !.stop_training = TRUE,
                        !.weights = IF restore_best_weights THEN f.best_weights ELSE @]
         ELSE [f EXCEPT !.wait = @ + 1]

\* what Model.fit is handed: inputs, targets, validation inputs and targets
FitArgs(s) ==
    [x |-> IF s.tx_power THEN <<s.rss_train_scaled, s.power_train>> ELSE <<s.rss_train_scaled>>,
     y |-> <<s.xr_train_scaled, s.yr_train_scaled>>,
     val_x |-> IF s.tx_power THEN <<s.rss_test_scaled, s.power_test>> ELSE <<s.rss_test_scaled>>,
     val_y |-> <<s.xr_test_scaled, s.yr_test_scaled>>]

train ==
    /\ pc = "trainer"
    /\ IF self.model = None
       THEN \* self.model.fit on None
            /\ exc' = Raise("AttributeError", IF self.tx_power THEN 139 ELSE 148)
            /\ ret' = Returned("train", "none")
            /\ UNCHANGED <<pc, fit>>
       ELSE IF ~self.model.compiled
       THEN /\ exc' = Raise("RuntimeError", IF self.tx_power THEN 139 ELSE 148)
            /\ ret' = Returned("train", "none")
            /\ UNCHANGED <<pc, fit>>
       ELSE /\ fit' = FitBegin(self)
            /\ ret' = Returned("train", "fit")
            /\ pc' = "fit"
            /\ UNCHANGED exc
    /\ UNCHANGED <<loaderVars, self>>

\* a stub: returns None
predict ==
    /\ pc = "trainer"
    /\ ret' = Returned("predict", "none")
    /\ exc' = None
    /\ UNCHANGED <<pc, loaderVars, self, fit>>

evaluate ==
    /\ pc = "trainer"
    /\ IF self.model = None
       THEN \* self.model.predict on None
            /\ exc' = Raise("AttributeError", IF self.tx_power THEN 164 ELSE 166)
            /\ ret' = Returned("evaluate", "none")
            /\ UNCHANGED stdout
       ELSE IF self.preprocessor.type # "scaler"
       THEN \* a str has no inverse_transform
            /\ exc' = Raise("AttributeError", 168)
            /\ ret' = Returned("evaluate", "none")
            /\ UNCHANGED stdout
       ELSE /\ exc' = None
            /\ ret' = [Returned("evaluate", "metrics") EXCEPT !.scaler = self.preprocessor.ref]
            /\ stdout' = Append(stdout, "-=-=-=-=-=-=-=-=- Metrics Evaluation -=-=-=-=-=-=-=-=-")
    /\ UNCHANGED <<pc, cfg, data, fileRead, rssi_scaler, coords_preprocessing, tts_out,
                   training_df, testing_df, training_data, testing_data, self, fit>>

\* one epoch of Model.fit: the training steps give new weights, validation
\* gives a loss, then the callbacks run in list order
Losses == 1..MaxLoss

on_epoch_end ==
    /\ pc = "fit"
    /\ fit.phase = "fit"
    /\ ~fit.stop_training
    /\ fit.epoch < fit.epochs
    /\ \E v \in Losses :
        LET e == fit.epoch + 1
            f0 == [fit EXCEPT !.epoch = e, !.losses = Append(@, v), !.weights = e]
        IN  fit' = EarlyStoppingEpochEnd(CheckpointEpochEnd(f0, e, v), e, v)
    /\ UNCHANGED <<pc, exc, loaderVars, self, ret>>

\* fit returns when the epochs are used up or a callback set stop_training;
\* train then prints the summary and returns
fit_return ==
    /\ pc = "fit"
    /\ fit.phase = "fit"
    /\ fit.stop_training \/ fit.epoch = fit.epochs
    /\ fit' = [fit EXCEPT !.phase = "ended"]
    /\ self' = [self EXCEPT !.model.weights = fit.weights]
    /\ stdout' = Append(stdout, "summary")
    /\ pc' = "trainer"
    /\ UNCHANGED <<exc, ret, cfg, data, fileRead, rssi_scaler, coords_preprocessing, tts_out,
                   training_df, testing_df, training_data, testing_data>>

NextLoader == LoaderInit \/ load_data \/ process_data

NextTrainer == TrainerInit \/ build_model \/ train \/ predict \/ evaluate

NextFit == on_epoch_end \/ fit_return

\* the Loader alone, over every configuration and dataset
Spec == Init /\ [][NextLoader]_vars

\* the Loader followed by the Trainer
InitPipeline ==
    /\ Init
    /\ cfg.frac = <<1, 1>>
    /\ cfg.no_val_rss = 0 - 100
    /\ cfg.floor = 1

SpecPipeline == InitPipeline /\ [][NextLoader \/ NextTrainer]_vars

\* Model.fit as train configures it, entered on a compiled model
FitSelves ==
    [tx_power : BOOLEAN, epochs : 1..MaxEpochs, patience : 1..MaxPatience,
     model : {[Model(1, 1) EXCEPT !.compiled = TRUE]}]

InitFit ==
    /\ pc = "fit"
    /\ self \in FitSelves
    /\ fit = FitBegin(self)
    /\ ret = Returned("train", "fit")
    /\ exc = None
    /\ cfg = None
    /\ data = <<>>
    /\ fileRead = FALSE
    /\ stdout = <<>>
    /\ rssi_scaler = None
    /\ coords_preprocessing = None
    /\ tts_out = None
    /\ training_df = None
    /\ testing_df = None
    /\ training_data = None
    /\ testing_data = None

SpecFit == InitFit /\ [][NextFit]_vars

\* ================================================================== claims
Deref(ref) == IF ref = "rssi_scaler" THEN rssi_scaler ELSE coords_preprocessing

Loaded == training_df # None

Processed == pc = "done"

Kept == FloorFilter(data, cfg.floor)

\* C2: for each split, inverse-transforming labels.coords_scaled through the
\* coords_scaler of the same label bundle returns labels.coords (for the
\* scalers that have an inverse at all).
RoundTrips(bundle) ==
    LET lab == bundle.fields.labels.fields
        sc == Deref(lab.coords_scaler)
        back == inverse_transform(sc, lab.coords_scaled)
    IN  \A i \in DOMAIN lab.coords : \A j \in 1..2 : IsExactly(back[i][j], lab.coords[i][j])

C2_RoundTripBothSplits ==
    (Processed /\ HasInverse(coords_preprocessing))
        => (RoundTrips(training_data) /\ RoundTrips(testing_data))

\* C3: after load_data every row of the train and of the test partition has
\* the configured floor, and no row is in both, before and after the
\* down-sampling.
C3_FloorAndDisjoint ==
    Loaded =>
        /\ \A i \in DOMAIN training_df.rows : training_df.rows[i].floor = cfg.floor
        /\ \A i \in DOMAIN testing_df.rows : testing_df.rows[i].floor = cfg.floor
        /\ \A i \in tts_out.train \cup tts_out.test : data[i].floor = cfg.floor
        /\ DOMAIN training_df.rows \cap DOMAIN testing_df.rows = {}
        /\ tts_out.train \cap tts_out.test = {}
        /\ DOMAIN training_df.rows \subseteq tts_out.train
        /\ DOMAIN testing_df.rows \subseteq tts_out.test

C3_Witness ==
    /\ pc = "process_data"
    /\ \E i \in DOMAIN data : data[i].floor # cfg.floor
    /\ DOMAIN training_df.rows # {}
    /\ DOMAIN testing_df.rows # {}
    /\ RLess(cfg.frac, <<1, 1>>)

\* C5: with an unsupported preprocessor name the constructor ends in
\* sys.exit after printing one line; the file is never read, nothing is
\* split and neither training_data nor testing_data is produced.
C5_UnsupportedExits ==
    (pc # "new" /\ cfg.preprocessor \notin SupportedPreprocessors) =>
        /\ pc = "exited"
        /\ exc.type = "SystemExit"
        /\ Len(stdout) = 1
        /\ ~fileRead
        /\ tts_out = None /\ training_df = None /\ testing_df = None
        /\ training_data = None /\ testing_data = None
        /\ rssi_scaler = None /\ coords_preprocessing = None

C5_Witness == pc = "exited" /\ cfg.preprocessor = "robust_scaler" /\ Len(stdout) = 1

\* C7 as stated: the exposed test partition has round(n*f) rows within one
\* and the exposed train partition has the rest of the n filtered rows.
C7_ExposedSizes ==
    Loaded =>
        LET n == Cardinality(Kept)
            r == RoundHalfEven(RMul(cfg.test_size, <<n, 1>>))
            k == Cardinality(DOMAIN testing_df.rows)
        IN  /\ k \in (r - 1)..(r + 1)
            /\ Cardinality(DOMAIN training_df.rows) = n - k

\* C7 amended: the split gives the test partition ceil(n*f) rows, which is
\* within one of round(n*f), and the train partition the other n - ceil(n*f)
\* rows; the Loader exposes these partitions when frac >= 1.0 and, when
\* frac < 1.0, a sample of round(frac * size) rows of each; 10 rows with
\* test_size 0.2 split into 8 and 2.
C7_SplitSizes ==
    /\ Loaded =>
        LET n == Cardinality(Kept)
            f == cfg.test_size
            r == RoundHalfEven(RMul(f, <<n, 1>>))
            k == Cardinality(tts_out.test)
        IN  /\ k * f[2] >= n * f[1] /\ (k - 1) * f[2] < n * f[1]
            /\ k \in (r - 1)..(r + 1)
            /\ Cardinality(tts_out.train) = n - k
            /\ tts_out.train \cup tts_out.test = Kept
            /\ IF RLess(cfg.frac, <<1, 1>>)
               THEN /\ Cardinality(DOMAIN training_df.rows)
                            = RoundHalfEven(RMul(cfg.frac, <<n - k, 1>>))
                    /\ Cardinality(DOMAIN testing_df.rows)
                            = RoundHalfEven(RMul(cfg.frac, <<k, 1>>))
               ELSE /\ DOMAIN training_df.rows = tts_out.train
                    /\ DOMAIN testing_df.rows = tts_out.test
    /\ NTest(10, <<1, 5>>) = 2 /\ NTrain(10, <<1, 5>>) = 8

C7_Witness ==
    /\ pc = "process_data"
    /\ Cardinality(Kept) = MaxRows
    /\ cfg.frac = <<1, 1>>
    /\ Cardinality(DOMAIN testing_df.rows) = 2
    /\ Cardinality(DOMAIN training_df.rows) = MaxRows - 2

\* C8: process_data replaces every missing feature value of either split by
\* the configured sentinel and leaves the others alone; no missing value
\* remains in the raw RSS matrices, and the scaled RSS of each split is the
\* scaler fitted on the filled values and applied to them.
Filled(i, k) == IF data[i].rss[k].isna THEN Cell(cfg.no_val_rss) ELSE data[i].rss[k]

FilledMatrix(ids) == [i \in ids |-> [k \in 1..NumAPs |-> Filled(i, k)]]

ScaledFilled(ids) ==
    Unflatten(fit_transform(NewScaler(ScalerClass(cfg.preprocessor)),
                            Flatten(FilledMatrix(ids))).out, FilledMatrix(ids))

AfterProcessData == pc = "done" \/ (pc = "raised" /\ exc.line \in {99, 101})

C8_SentinelFill ==
    /\ AfterProcessData =>
        /\ RssMatrix(training_df.rows) = FilledMatrix(DOMAIN training_df.rows)
        /\ RssMatrix(testing_df.rows) = FilledMatrix(DOMAIN testing_df.rows)
    /\ Processed =>
        /\ training_data.fields.rss = FilledMatrix(DOMAIN training_df.rows)
        /\ testing_data.fields.rss = FilledMatrix(DOMAIN testing_df.rows)
        /\ \A i \in DOMAIN training_data.fields.rss : \A k \in 1..NumAPs :
                ~training_data.fields.rss[i][k].isna
        /\ \A i \in DOMAIN testing_data.fields.rss : \A k \in 1..NumAPs :
                ~testing_data.fields.rss[i][k].isna
        /\ training_data.fields.rss_scaled = ScaledFilled(DOMAIN training_df.rows)
        /\ testing_data.fields.rss_scaled = ScaledFilled(DOMAIN testing_df.rows)

C8_Witness ==
    /\ Processed
    /\ cfg.no_val_rss = 100
    /\ \E i \in DOMAIN training_df.rows : \E k, m \in 1..NumAPs :
            data[i].rss[k].isna /\ ~data[i].rss[m].isna
    /\ \E i \in DOMAIN testing_df.rows : \E k \in 1..NumAPs : data[i].rss[k].isna

\* C1: the constructor on the Loader's structures returns an Unbuilt Trainer
\* with a null model, build_model leaves a non-null model for either value
\* of tx_power, and train or evaluate on a null model raise.
C1_Lifecycle ==
    ret # None =>
        /\ ret.op = "__init__" => (exc = None /\ self.model = None)
        /\ ret.op = "build_model" => (exc = None /\ self.model # None)
        /\ (ret.op \in {"train", "evaluate"} /\ self.model = None)
                => (exc # None /\ exc.type = "AttributeError")

\* C4: evaluate and predict on a Trainer whose train has not completed end
\* in an error and report nothing.
C4_UntrainedOperationsFail ==
    (ret # None /\ ret.op \in {"evaluate", "predict"} /\ fit.phase # "ended")
        => (exc # None /\ ret.out = "none")

\* C6: no Trainer call changes the fitted parameters of either scaler, and
\* evaluate inverse-transforms through the Loader's coordinate scaler.
C6_BorrowedScalers ==
    [][pc = "trainer" =>
        /\ rssi_scaler' = rssi_scaler
        /\ coords_preprocessing' = coords_preprocessing
        /\ ret'.op = "evaluate" => ret'.scaler = "coords_preprocessing"]_vars

\* C10: train hands fit the training split's scaled RSS with the training
\* split's scaled coordinates as targets, one target row per input row, and
\* the test split's scaled RSS and coordinates for validation.
C10_FitOnTrainingSplit ==
    (ret # None /\ ret.op = "train") =>
        /\ ret.out = "fit"
        /\ FitArgs(self).x[1] = training_data.fields.rss_scaled
        /\ FitArgs(self).y = <<Column(training_data.fields.labels.fields.coords_scaled, 0),
                               Column(training_data.fields.labels.fields.coords_scaled, 1)>>
        /\ DOMAIN FitArgs(self).y[1] = DOMAIN FitArgs(self).x[1]
        /\ FitArgs(self).val_x[1] = testing_data.fields.rss_scaled
        /\ FitArgs(self).val_y = <<Column(testing_data.fields.labels.fields.coords_scaled, 0),
                                   Column(testing_data.fields.labels.fields.coords_scaled, 1)>>

\* C9: with validation losses v1..vk, the checkpoint is written exactly at
\* the epochs whose loss is below every earlier one and holds the best
\* epoch so far; fit stops at the first epoch that ends `patience`
\* consecutive epochs without such an improvement, or at the epoch count;
\* and when it stops early the weights are those of the epoch with the
\* lowest loss.
Improved(L, i) == \A j \in 1..(i - 1) : L[i] < L[j]

BestEpoch(L) == CHOOSE i \in 1..Len(L) : Improved(L, i) /\ \A j \in 1..Len(L) : L[i] <= L[j]

Stale(L, k, patience) ==
    /\ k - patience >= 1
    /\ \A i \in (k - patience + 1)..k : ~Improved(L, i)

C9_CheckpointAndEarlyStop ==
    fit.phase # "idle" =>
        LET L == fit.losses
            k == Len(L)
        IN  /\ fit.epoch = k
            /\ fit.saves = {i \in 1..k : Improved(L, i)}
            /\ k > 0 => fit.ckpt = BestEpoch(L)
            /\ k = 0 => fit.ckpt = 0
            /\ \A j \in 1..(k - 1) : ~Stale(L, j, fit.patience)
            /\ fit.stop_training <=> (k > 0 /\ Stale(L, k, fit.patience))
            /\ k <= fit.epochs
            /\ fit.phase = "ended" => (fit.stop_training \/ k = fit.epochs)
            /\ fit.stop_training => fit.weights = BestEpoch(L)
            /\ ~fit.stop_training => fit.weights = k
            /\ fit.phase = "ended" => self.model.weights = fit.weights

C9_Witness ==
    /\ fit.phase = "ended"
    /\ fit.stop_training
    /\ fit.epoch < fit.epochs
    /\ Cardinality(fit.saves) >= 2
    /\ fit.weights < fit.epoch
====
